---- MODULE Spec2Model ----
(***************************************************************************)
(* Model of StaticFrontendWithLambdaBackend (index.js) and of              *)
(* getDomainAndSubdomain (helpers).  Strings whose content matters         *)
(* (domains, request paths) are sequences of one-character strings.        *)
(***************************************************************************)
EXTENDS Integers, Sequences, FiniteSets, TLC

VARIABLES
    \* ---- domain splitter runs (SpecSplit) ----
    domain,        \* argument of getDomainAndSubdomain
    splitResult,   \* its result, or NotCalled
    \* ---- request routing over the composed distribution (SpecRoute) ----
    routeDist,     \* arguments of the aws.cloudfront.Distribution
    reqPath,       \* a request path
    served,        \* the cache behavior that served it, or NotCalled
    \* ---- orchestration (Spec) ----
    pc,            \* "idle", "running", "succeeded", "failed", "destroying", "destroyed"
    inputs,        \* constructor arguments of the current run
    self,          \* fields of the component: certificateArn, cloudFrontDistribution, aliasRecord
    outputs,       \* what registerOutputs received, or NotCalled
    decl,          \* resources registered by the constructor in this run, by kind
    zone,          \* the two getZone promises, by call site
    lookups,       \* external zone lookups issued in this run
    op,            \* what the deployment did for each kind in this run
    live,          \* resources that exist at the provider, by kind
    mutations,     \* creations, updates and deletions performed in this run
    runError,      \* the error the run terminates with, or NoError
    failures,      \* errors raised by the collaborators in this run, in order
    baseline,      \* inputs and outcome of the previous run, or NotCalled
    torn,          \* kinds destroyed by the tear-down, in order
    zoneRegistry   \* the externally managed zones (canonical names)

splitVars == <<domain, splitResult>>
routeVars == <<routeDist, reqPath, served>>
runVars == <<pc, inputs, self, outputs, decl, zone, lookups, op, live, mutations,
             runError, failures, baseline, torn, zoneRegistry>>
vars == <<splitVars, routeVars, runVars>>

\* ------------------------------------------------------------------------
\* Bounds
\* ------------------------------------------------------------------------
MaxLen == 5

DomainChars == {"a", "b", "."}

NotCalled == [tag |-> "not-called"]

RECURSIVE SeqsUpTo(_, _)
SeqsUpTo(S, n) ==
    IF n = 0 THEN {<<>>}
    ELSE LET shorter == SeqsUpTo(S, n - 1)
         IN shorter \cup {Append(s, c) : s \in {t \in shorter : Len(t) = n - 1}, c \in S}

DomainStrings == SeqsUpTo(DomainChars, MaxLen)

\* ------------------------------------------------------------------------
\* String primitives used by getDomainAndSubdomain
\* ------------------------------------------------------------------------
\* String.prototype.split('.'): the tokens between separators, empty tokens kept.
RECURSIVE StrSplit(_, _)
StrSplit(s, sep) ==
    IF \A i \in 1..Len(s) : s[i] # sep THEN <<s>>
    ELSE LET i == CHOOSE j \in 1..Len(s) : s[j] = sep /\ \A k \in 1..(j - 1) : s[k] # sep
         IN <<SubSeq(s, 1, i - 1)>> \o StrSplit(SubSeq(s, i + 1, Len(s)), sep)

\* Array.prototype.join(sep)
RECURSIVE StrJoin(_, _)
StrJoin(parts, sep) ==
    IF Len(parts) = 0 THEN <<>>
    ELSE IF Len(parts) = 1 THEN parts[1]
    ELSE parts[1] \o <<sep>> \o StrJoin(Tail(parts), sep)

Thrown(msg, arg) == [threw |-> TRUE, error |-> [type |-> "Error", message |-> <<msg, arg>>]]

\* a mutant: the two-token case also takes the canonicalising branch
getDomainAndSubdomain_NoTwoTokenCase(d) ==
    LET parts == StrSplit(d, ".")
    IN IF Len(parts) < 2 THEN Thrown("No TLD found on ", d)
       ELSE [threw |-> FALSE, subdomain |-> parts[1],
             parentDomain |-> StrJoin(Tail(parts), ".") \o <<".">>]

\* a mutant: the trailing "." is not appended
getDomainAndSubdomain_NoTrailingDot(d) ==
    LET parts == StrSplit(d, ".")
    IN IF Len(parts) < 2 THEN Thrown("No TLD found on ", d)
       ELSE IF Len(parts) = 2 THEN [threw |-> FALSE, subdomain |-> <<>>, parentDomain |-> d]
       ELSE [threw |-> FALSE, subdomain |-> parts[1],
             parentDomain |-> StrJoin(Tail(parts), ".")]

getDomainAndSubdomain(d) ==
    LET parts == StrSplit(d, ".")
    IN IF Len(parts) < 2 THEN Thrown("No TLD found on ", d)
       ELSE IF Len(parts) = 2 THEN [threw |-> FALSE, subdomain |-> <<>>, parentDomain |-> d]
       ELSE [threw |-> FALSE, subdomain |-> parts[1],
             parentDomain |-> StrJoin(Tail(parts), ".") \o <<".">>]

\* ------------------------------------------------------------------------
\* The component: values, resource declarations and deferred references
\* ------------------------------------------------------------------------
TEN_MINUTES == 60 * 10

Undefined == [tag |-> "undefined"]

NotDeclared == [tag |-> "not-declared"]

NoRes == [tag |-> "no-resource"]

NoError == [tag |-> "no-error"]

NoRefs == <<>>

NoProps == <<>>

Kinds == {"logs", "east", "cert", "valrec", "certval", "dist", "alias"}

Sites == {"provisionCertificate", "createAliasRecord"}

\* `new aws.X(...)` evaluates to a resource object
ResourceObject(kind) == [res |-> kind]

IsResourceObject(obj) == "res" \in DOMAIN obj

\* obj.field: an Output of a resource, or the plain field of a caller's object
Prop(obj, field) ==
    IF IsResourceObject(obj) THEN [res |-> obj.res, out |-> field]
    ELSE [lit |-> obj[field]]

\* the promise made by getZone(...).then(zone => zone.zoneId) at a call site
ZonePromise(site) == [zone |-> site]

Returned(decls, calls, value) ==
    [threw |-> FALSE, decls |-> decls, calls |-> calls, ret |-> value]

ThrewAfter(decls, calls, err) ==
    [threw |-> TRUE, decls |-> decls, calls |-> calls, error |-> err]

\* a mutant: an existing bucket makes the method pick another bucket name
createLogsBucket_FreshNameWhenExists(name, targetDomain) ==
    Returned({[kind |-> "logs", name |-> <<name, "-front-logs">>,
               parent |-> "this", provider |-> "default",
               props |-> [bucket |-> targetDomain \o
                                 (IF live["logs"] = NoRes THEN <<"-logs">> ELSE <<"-logs", "-2">>),
                          acl |-> "private"],
               refs |-> NoRefs]},
             {}, ResourceObject("logs"))

\* a mutant: the bucket is named after the component, not the domain
createLogsBucket_NamedFromName(name, targetDomain) ==
    Returned({[kind |-> "logs", name |-> <<name, "-front-logs">>,
               parent |-> "this", provider |-> "default",
               props |-> [bucket |-> <<name, "-logs">>, acl |-> "private"],
               refs |-> NoRefs]},
             {}, ResourceObject("logs"))

createLogsBucket(name, targetDomain) ==
    Returned({[kind |-> "logs", name |-> <<name, "-front-logs">>,
               parent |-> "this", provider |-> "default",
               props |-> [bucket |-> targetDomain \o <<"-logs">>, acl |-> "private"],
               refs |-> NoRefs]},
             {}, ResourceObject("logs"))

EastProviderDecl ==
    [kind |-> "east", name |-> <<"east">>, parent |-> "stack", provider |-> "default",
     props |-> [region |-> "us-east-1"], refs |-> NoRefs]

CertificateDecl(name, targetDomain) ==
    [kind |-> "cert", name |-> <<name, "-certificate">>, parent |-> "this", provider |-> "east",
     props |-> [domainName |-> targetDomain, validationMethod |-> "DNS"],
     refs |-> [provider |-> Prop(ResourceObject("east"), "id")]]

ValidationRecordDecl(name, certificate, hostedZoneId) ==
    [kind |-> "valrec", name |-> <<name, "-validation">>, parent |-> "this",
     provider |-> "default",
     props |-> [ttl |-> TEN_MINUTES],
     refs |-> [name |-> Prop(certificate, "resourceRecordName"),
               zoneId |-> hostedZoneId,
               type |-> Prop(certificate, "resourceRecordType"),
               records |-> Prop(certificate, "resourceRecordValue")]]

CertificateValidationDecl(name, certificate, certificateValidationDomain) ==
    [kind |-> "certval", name |-> <<name, "-certificateValidation">>, parent |-> "this",
     provider |-> "east",
     props |-> NoProps,
     refs |-> [provider |-> Prop(ResourceObject("east"), "id"),
               certificateArn |-> Prop(certificate, "arn"),
               validationRecordFqdns |-> Prop(certificateValidationDomain, "fqdn")]]

GetZoneCall(site, parentDomain) == [site |-> site, name |-> parentDomain]

\* a mutant: the method hands out the ARN of the certificate request itself
provisionCertificate_ReturnsCertificateArn(name, targetDomain) ==
    LET certificate == ResourceObject("cert")
        first == {EastProviderDecl, CertificateDecl(name, targetDomain)}
        domainParts == getDomainAndSubdomain(targetDomain)
    IN IF domainParts.threw THEN ThrewAfter(first, {}, domainParts.error)
       ELSE LET site == "provisionCertificate"
                certificateValidationDomain == ResourceObject("valrec")
            IN Returned(first \cup
                          {ValidationRecordDecl(name, certificate, ZonePromise(site)),
                           CertificateValidationDecl(name, certificate,
                                                     certificateValidationDomain)},
                        {GetZoneCall(site, domainParts.parentDomain)},
                        Prop(certificate, "arn"))

provisionCertificate(name, targetDomain) ==
    LET certificate == ResourceObject("cert")
        first == {EastProviderDecl, CertificateDecl(name, targetDomain)}
        domainParts == getDomainAndSubdomain(targetDomain)
    IN IF domainParts.threw THEN ThrewAfter(first, {}, domainParts.error)
       ELSE LET site == "provisionCertificate"
                certificateValidationDomain == ResourceObject("valrec")
                certificateValidation == ResourceObject("certval")
            IN Returned(first \cup
                          {ValidationRecordDecl(name, certificate, ZonePromise(site)),
                           CertificateValidationDecl(name, certificate,
                                                     certificateValidationDomain)},
                        {GetZoneCall(site, domainParts.parentDomain)},
                        Prop(certificateValidation, "certificateArn"))

ApiPathPattern == <<"/", "a", "p", "i", "/", "*">>

\* s.replace(/^https?:\/\/([^/]*).*/, '$1') on a URL given as its scheme token
\* followed by host and path tokens: the host, or the string itself when the
\* pattern does not match
RECURSIVE UpToSlash(_)
UpToSlash(s) ==
    IF s = <<>> \/ Head(s) = "/" THEN <<>> ELSE <<Head(s)>> \o UpToSlash(Tail(s))

ApiHost(url) ==
    IF Len(url) >= 1 /\ url[1] \in {"http://", "https://"}
    THEN UpToSlash(Tail(url))
    ELSE url

DistributionProps(targetDomain, contentBucket, apiGateway, apiPattern) ==
    [enabled |-> TRUE,
     aliases |-> <<targetDomain>>,
     origins |-> <<[originId |-> contentBucket.arn,
                    domainName |-> contentBucket.websiteEndpoint,
                    originProtocolPolicy |-> "http-only",
                    httpPort |-> 80, httpsPort |-> 443,
                    originSslProtocols |-> <<"TLSv1.2">>],
                   [originId |-> "api",
                    domainName |-> ApiHost(apiGateway.url),
                    originPath |-> "/stage",
                    originProtocolPolicy |-> "https-only",
                    httpPort |-> 80, httpsPort |-> 443,
                    originSslProtocols |-> <<"TLSv1.2">>]>>,
     defaultRootObject |-> "index.html",
     defaultCacheBehavior |->
         [targetOriginId |-> contentBucket.arn,
          viewerProtocolPolicy |-> "redirect-to-https",
          allowedMethods |-> <<"GET", "HEAD", "OPTIONS">>,
          cachedMethods |-> <<"GET", "HEAD", "OPTIONS">>,
          forwardCookies |-> "none", queryString |-> FALSE,
          minTtl |-> 0, defaultTtl |-> TEN_MINUTES, maxTtl |-> TEN_MINUTES],
     orderedCacheBehaviors |->
         <<[pathPattern |-> apiPattern,
            allowedMethods |-> <<"DELETE", "GET", "HEAD", "OPTIONS", "PATCH", "POST", "PUT">>,
            cachedMethods |-> <<"HEAD", "GET", "OPTIONS">>,
            targetOriginId |-> "api",
            defaultTtl |-> 0, minTtl |-> 0, maxTtl |-> 0,
            queryString |-> TRUE, forwardCookies |-> "all",
            viewerProtocolPolicy |-> "redirect-to-https"]>>,
     priceClass |-> "PriceClass_100",
     customErrorResponses |->
         <<[errorCode |-> 404, responseCode |-> 404, responsePagePath |-> "/404.html"],
           [errorCode |-> 403, responseCode |-> 200, responsePagePath |-> "/index.html"]>>,
     geoRestrictionType |-> "none",
     sslSupportMethod |-> "sni-only",
     loggingIncludeCookies |-> FALSE,
     loggingPrefix |-> targetDomain \o <<"/">>]

\* a mutant: the distribution keeps the default CloudFront certificate
createCloudFrontDistribution_DefaultCertificate(name, targetDomain, contentBucket, apiGateway, certificateArn, logsBucket) ==
    Returned({[kind |-> "dist", name |-> <<name, "-cloudfront">>,
               parent |-> "this", provider |-> "default",
               props |-> DistributionProps(targetDomain, contentBucket, apiGateway, ApiPathPattern),
               refs |-> [acmCertificateArn |-> [lit |-> Undefined],
                         loggingBucket |-> Prop(logsBucket, "bucketDomainName")]]},
             {}, ResourceObject("dist"))

\* a mutant: the API path pattern lacks the separator after "api"
createCloudFrontDistribution_LoosePattern(name, targetDomain, contentBucket, apiGateway, certificateArn, logsBucket) ==
    Returned({[kind |-> "dist", name |-> <<name, "-cloudfront">>,
               parent |-> "this", provider |-> "default",
               props |-> DistributionProps(targetDomain, contentBucket, apiGateway,
                                           <<"/", "a", "p", "i", "*">>),
               refs |-> [acmCertificateArn |-> certificateArn,
                         loggingBucket |-> Prop(logsBucket, "bucketDomainName")]]},
             {}, ResourceObject("dist"))

createCloudFrontDistribution(name, targetDomain, contentBucket, apiGateway, certificateArn, logsBucket) ==
    Returned({[kind |-> "dist", name |-> <<name, "-cloudfront">>,
               parent |-> "this", provider |-> "default",
               props |-> DistributionProps(targetDomain, contentBucket, apiGateway, ApiPathPattern),
               refs |-> [acmCertificateArn |-> certificateArn,
                         loggingBucket |-> Prop(logsBucket, "bucketDomainName")]]},
             {}, ResourceObject("dist"))

AliasRecordDecl(name, subdomain, hostedZoneId, distribution) ==
    [kind |-> "alias", name |-> <<name>>, parent |-> "this", provider |-> "default",
     props |-> [name |-> subdomain, type |-> "A", evaluateTargetHealth |-> TRUE],
     refs |-> [zoneId |-> hostedZoneId,
               aliasName |-> Prop(distribution, "domainName"),
               aliasZoneId |-> Prop(distribution, "hostedZoneId")]]

\* a mutant: the zone is looked up by the target domain, not its parent
createAliasRecord_LooksUpTargetDomain(name, targetDomain, distribution) ==
    LET domainParts == getDomainAndSubdomain(targetDomain)
        site == "createAliasRecord"
    IN IF domainParts.threw THEN ThrewAfter({}, {}, domainParts.error)
       ELSE Returned({AliasRecordDecl(name, domainParts.subdomain,
                                      ZonePromise(site), distribution)},
                     {GetZoneCall(site, targetDomain)},
                     ResourceObject("alias"))

createAliasRecord(name, targetDomain, distribution) ==
    LET domainParts == getDomainAndSubdomain(targetDomain)
        site == "createAliasRecord"
    IN IF domainParts.threw THEN ThrewAfter({}, {}, domainParts.error)
       ELSE Returned({AliasRecordDecl(name, domainParts.subdomain,
                                      ZonePromise(site), distribution)},
                     {GetZoneCall(site, domainParts.parentDomain)},
                     ResourceObject("alias"))

NewComponent ==
    [certificateArn |-> Undefined, cloudFrontDistribution |-> Undefined,
     aliasRecord |-> Undefined]

\* The constructor, run on a fresh component `this`.  Its result: the
\* resources registered and getZone calls made before it returned or threw,
\* what registerOutputs received, and the fields of the component.
Constructor(this, name, targetDomain, contentBucket, apiGateway, logsBucketArg) ==
    LET logs == IF logsBucketArg = Undefined
                THEN createLogsBucket(name, targetDomain)
                ELSE Returned({}, {}, logsBucketArg)
        logsBucket == logs.ret
        cert == provisionCertificate(name, targetDomain)
    IN IF cert.threw
       THEN [threw |-> TRUE, error |-> cert.error,
             decls |-> logs.decls \cup cert.decls, calls |-> cert.calls,
             outputs |-> NotCalled, this |-> this]
       ELSE
       LET certificateArn == cert.ret
           dist == createCloudFrontDistribution(name, targetDomain, contentBucket,
                                                apiGateway, certificateArn, logsBucket)
           cloudFrontDistribution == dist.ret
           alias == createAliasRecord(name, targetDomain, cloudFrontDistribution)
       IN IF alias.threw
          THEN [threw |-> TRUE, error |-> alias.error,
                decls |-> logs.decls \cup cert.decls \cup dist.decls \cup alias.decls,
                calls |-> cert.calls \cup alias.calls,
                outputs |-> NotCalled, this |-> this]
          ELSE
          LET aliasRecord == alias.ret
          IN [threw |-> FALSE, error |-> NoError,
              decls |-> logs.decls \cup cert.decls \cup dist.decls \cup alias.decls,
              calls |-> cert.calls \cup alias.calls,
              outputs |-> [certificateArn |-> certificateArn,
                           aliasRecord |-> this.aliasRecord,
                           cloudFrontDistribution |-> cloudFrontDistribution],
              this |-> [certificateArn |-> certificateArn,
                        cloudFrontDistribution |-> cloudFrontDistribution,
                        aliasRecord |-> aliasRecord]]

\* ------------------------------------------------------------------------
\* SpecSplit: getDomainAndSubdomain applied to every bounded input
\* ------------------------------------------------------------------------
RouteIdle ==
    /\ routeDist = NotCalled
    /\ reqPath = <<>>
    /\ served = NotCalled

RunIdle ==
    /\ pc = "idle"
    /\ inputs = NotCalled
    /\ self = NewComponent
    /\ outputs = NotCalled
    /\ decl = [k \in Kinds |-> NotDeclared]
    /\ zone = [s \in Sites |-> [state |-> "none"]]
    /\ lookups = 0
    /\ op = [k \in Kinds |-> "none"]
    /\ live = [k \in Kinds |-> NoRes]
    /\ mutations = 0
    /\ runError = NoError
    /\ failures = <<>>
    /\ baseline = NotCalled
    /\ torn = <<>>

InitSplit ==
    /\ domain \in DomainStrings
    /\ splitResult = NotCalled
    /\ RouteIdle
    /\ RunIdle
    /\ zoneRegistry = {}

CallSplit ==
    /\ splitResult = NotCalled
    /\ splitResult' = getDomainAndSubdomain(domain)
    /\ UNCHANGED <<domain, routeVars, runVars>>

NextSplit == CallSplit

SpecSplit == InitSplit /\ [][NextSplit]_vars

NumSeparators(d) == Cardinality({i \in 1..Len(d) : d[i] = "."})

FirstSeparator(d) == CHOOSE i \in 1..Len(d) : d[i] = "." /\ \A k \in 1..(i - 1) : d[k] # "."

StripTrailingSeparator(s) ==
    IF Len(s) > 0 /\ s[Len(s)] = "." THEN SubSeq(s, 1, Len(s) - 1) ELSE s

Rejoin(r) == StripTrailingSeparator(r.subdomain \o <<".">> \o r.parentDomain)

\* C6 as stated: for every domain with at least one separator, rejoining
\* subdomain + '.' + parentDomain and dropping the trailing separator gives
\* the domain back.
C6_RoundTripAll ==
    (splitResult # NotCalled /\ NumSeparators(domain) >= 1) =>
        (~splitResult.threw /\ Rejoin(splitResult) = domain)

\* C6 amended: the round trip holds for every domain with at least two
\* separators (three or more tokens); with exactly one separator the
\* subdomain is empty and parentDomain alone is the domain.
C6_RoundTrip ==
    splitResult # NotCalled =>
        /\ NumSeparators(domain) >= 2 =>
              (~splitResult.threw /\ Rejoin(splitResult) = domain)
        /\ NumSeparators(domain) = 1 =>
              (~splitResult.threw /\ splitResult.subdomain = <<>>
                  /\ splitResult.parentDomain = domain)

C6_Witness ==
    /\ domain = <<"a", ".", ".", "b">>
    /\ splitResult # NotCalled
    /\ ~splitResult.threw
    /\ Rejoin(splitResult) = domain

\* ------------------------------------------------------------------------
\* SpecRoute: requests routed over the cache behaviors of the distribution
\* ------------------------------------------------------------------------
MaxPathLen == 5

PathChars == {"/", "a", "p", "i"}

Paths == {<<"/">> \o t : t \in SeqsUpTo(PathChars, MaxPathLen)}

ContentBuckets ==
    {[arn |-> "arn:aws:s3:::content", websiteEndpoint |-> "content.s3-website.amazonaws.com"],
     [arn |-> "arn:aws:s3:::site", websiteEndpoint |-> "site.s3-website.amazonaws.com"]}

ApiGateways == {[url |-> <<"https://", "api", ".", "host", "/", "stage", "/">>]}

\* CloudFront path patterns: "*" stands for zero or more characters, "?" for one
RECURSIVE PathMatches(_, _)
PathMatches(pattern, path) ==
    IF pattern = <<>> THEN path = <<>>
    ELSE IF Head(pattern) = "*"
         THEN \/ PathMatches(Tail(pattern), path)
              \/ (path # <<>> /\ PathMatches(pattern, Tail(path)))
    ELSE /\ path # <<>>
         /\ Head(pattern) = "?" \/ Head(pattern) = Head(path)
         /\ PathMatches(Tail(pattern), Tail(path))

\* ordered behaviors in list order, first match wins, then the default one
SelectBehavior(props, path) ==
    LET hits == {i \in 1..Len(props.orderedCacheBehaviors) :
                    PathMatches(props.orderedCacheBehaviors[i].pathPattern, path)}
    IN IF hits = {} THEN props.defaultCacheBehavior
       ELSE props.orderedCacheBehaviors[CHOOSE i \in hits : \A j \in hits : i <= j]

DistributionOf(r) == CHOOSE d \in r.decls : d.kind = "dist"

InitRoute ==
    /\ \E contentBucket \in ContentBuckets, apiGateway \in ApiGateways :
          routeDist = DistributionOf(
              createCloudFrontDistribution("site", <<"w", ".", "a", ".", "b">>,
                  contentBucket, apiGateway,
                  Prop(ResourceObject("certval"), "certificateArn"),
                  ResourceObject("logs"))).props
    /\ reqPath \in Paths
    /\ served = NotCalled
    /\ domain = <<>>
    /\ splitResult = NotCalled
    /\ RunIdle
    /\ zoneRegistry = {}

Request ==
    /\ served = NotCalled
    /\ served' = SelectBehavior(routeDist, reqPath)
    /\ UNCHANGED <<routeDist, reqPath, splitVars, runVars>>

NextRoute == Request

SpecRoute == InitRoute /\ [][NextRoute]_vars

IsApiPath(path) == Len(path) >= 5 /\ SubSeq(path, 1, 5) = <<"/", "a", "p", "i", "/">>

OriginOf(props, behavior) ==
    CHOOSE i \in 1..Len(props.origins) : props.origins[i].originId = behavior.targetOriginId

Behaviors(props) == <<props.defaultCacheBehavior>> \o props.orderedCacheBehaviors

\* C10: a path matching '/api/*' is served by the API behavior (API origin,
\* min, default and max TTL 0); any other path is served by the default
\* behavior (content origin, default and max TTL 600 s); exactly one
\* behavior has no path pattern.
C10_Routing ==
    served # NotCalled =>
        /\ IsApiPath(reqPath) =>
              /\ served = routeDist.orderedCacheBehaviors[1]
              /\ "pathPattern" \in DOMAIN served
              /\ OriginOf(routeDist, served) = 2
              /\ routeDist.origins[2].originPath = "/stage"
              /\ served.minTtl = 0 /\ served.defaultTtl = 0 /\ served.maxTtl = 0
        /\ ~IsApiPath(reqPath) =>
              /\ served = routeDist.defaultCacheBehavior
              /\ "pathPattern" \notin DOMAIN served
              /\ OriginOf(routeDist, served) = 1
              /\ routeDist.origins[1].originProtocolPolicy = "http-only"
              /\ served.defaultTtl = 600 /\ served.maxTtl = 600
        /\ Cardinality({i \in 1..Len(Behaviors(routeDist)) :
                           "pathPattern" \notin DOMAIN Behaviors(routeDist)[i]}) = 1

C10_Witness ==
    /\ reqPath = <<"/", "a", "p", "i", "/", "a">>
    /\ served # NotCalled
    /\ served.targetOriginId = "api"

\* ------------------------------------------------------------------------
\* Spec: orchestration runs, deployment of the registered resources, tear-down
\* ------------------------------------------------------------------------
Names == {"site"}

TargetDomains == {<<"b">>, <<"a", ".", "b">>, <<"w", ".", "a", ".", "b">>}

LogsBuckets == {Undefined, [bucketDomainName |-> <<"external-logs">>]}

ZoneNames == {<<"a", ".", "b", ".">>, <<"w", ".", "a", ".", "b", ".">>}

RunContentBuckets == {[arn |-> "arn:aws:s3:::content",
                       websiteEndpoint |-> "content.s3-website.amazonaws.com"]}

DoneOps == {"same", "create", "update"}

\* resources and zone promises whose values a declaration's arguments use
Deps(d) == {d.refs[f].res : f \in {g \in DOMAIN d.refs : "res" \in DOMAIN d.refs[g]}}

ZoneDeps(d) == {d.refs[f].zone : f \in {g \in DOMAIN d.refs : "zone" \in DOMAIN d.refs[g]}}

\* what the provider reports back for a resource
Outs(d, args) ==
    CASE d.kind = "logs" -> [bucketDomainName |-> d.props.bucket \o <<".s3.amazonaws.com">>]
      [] d.kind = "east" -> [id |-> "east"]
      [] d.kind = "cert" ->
             [arn |-> <<"arn:aws:acm:us-east-1", d.props.domainName>>,
              resourceRecordName |-> <<"_acm">> \o d.props.domainName,
              resourceRecordType |-> "CNAME",
              resourceRecordValue |-> <<"_val">> \o d.props.domainName]
      [] d.kind = "valrec" -> [fqdn |-> args.name]
      [] d.kind = "certval" -> [certificateArn |-> args.certificateArn]
      [] d.kind = "dist" -> [domainName |-> <<d.name, ".cloudfront.net">>,
                             hostedZoneId |-> "Z2FDTNDATAQYW2"]
      [] d.kind = "alias" -> [fqdn |-> d.props.name]

Resolve(ref) ==
    IF "lit" \in DOMAIN ref THEN ref.lit
    ELSE IF "res" \in DOMAIN ref THEN live[ref.res].outs[ref.out]
    ELSE zone[ref.zone].value

Desired(d) ==
    LET args == [f \in DOMAIN d.refs |-> Resolve(d.refs[f])]
    IN [urn |-> <<d.kind, d.name>>, parent |-> d.parent, provider |-> d.provider,
        props |-> d.props, args |-> args, deps |-> Deps(d), outs |-> Outs(d, args)]

Canonical(name) ==
    IF Len(name) > 0 /\ name[Len(name)] = "." THEN name ELSE name \o <<".">>

\* the external registry: lookup of a zone by name
LookupZoneByName(name) ==
    IF Canonical(name) \in zoneRegistry
    THEN [found |-> TRUE, zone |-> [zoneId |-> <<"Z", Canonical(name)>>,
                                    name |-> Canonical(name)]]
    ELSE [found |-> FALSE,
          error |-> [type |-> "Error", message |-> <<"no matching Route53Zone found", name>>]]

\* a mutant: a rejected lookup is turned into an undefined zone id
ZoneIdThen_SwallowsRejection(result) ==
    IF result.found THEN [state |-> "resolved", value |-> result.zone.zoneId]
    ELSE [state |-> "resolved", value |-> Undefined]

\* .then(zone => zone.zoneId): a rejection passes through unchanged
ZoneIdThen(result) ==
    IF result.found THEN [state |-> "resolved", value |-> result.zone.zoneId]
    ELSE [state |-> "rejected", error |-> result.error]

ProviderError(k) ==
    IF k = "certval"
    THEN [type |-> "ValidationTimeoutError", message |-> <<"certificate validation", k>>]
    ELSE [type |-> "ResourceConflictError", message |-> <<"provider rejected", k>>]

FirstError(e) == IF runError = NoError THEN e ELSE runError

Init ==
    /\ RunIdle
    /\ zoneRegistry \in SUBSET ZoneNames
    /\ domain = <<>>
    /\ splitResult = NotCalled
    /\ RouteIdle

\* one run of the program: the constructor registers resources and starts lookups
Up(name, targetDomain, contentBucket, apiGateway, logsBucket) ==
    /\ \/ pc = "idle"
       \/ pc \in {"succeeded", "failed"} /\ baseline = NotCalled /\ name = inputs.name
    /\ LET r == Constructor(NewComponent, name, targetDomain, contentBucket,
                            apiGateway, logsBucket)
       IN /\ self' = r.this
          /\ outputs' = r.outputs
          /\ decl' = [k \in Kinds |->
                        IF \E d \in r.decls : d.kind = k
                        THEN CHOOSE d \in r.decls : d.kind = k
                        ELSE NotDeclared]
          /\ zone' = [s \in Sites |->
                        IF \E c \in r.calls : c.site = s
                        THEN [state |-> "pending",
                              name |-> (CHOOSE c \in r.calls : c.site = s).name]
                        ELSE [state |-> "none"]]
          /\ lookups' = Cardinality(r.calls)
          /\ runError' = r.error
          /\ failures' = IF r.threw THEN <<r.error>> ELSE <<>>
    /\ pc' = "running"
    /\ inputs' = [name |-> name, targetDomain |-> targetDomain,
                  contentBucket |-> contentBucket, apiGateway |-> apiGateway,
                  logsBucket |-> logsBucket]
    /\ baseline' = IF pc = "idle" THEN NotCalled
                   ELSE [inputs |-> inputs, ok |-> pc = "succeeded"]
    /\ op' = [k \in Kinds |-> "none"]
    /\ mutations' = 0
    /\ UNCHANGED <<live, torn, zoneRegistry, splitVars, routeVars>>

\* the registry answers a getZone call
ResolveZone(site) ==
    /\ pc = "running"
    /\ zone[site].state = "pending"
    /\ LET result == LookupZoneByName(zone[site].name)
           settled == ZoneIdThen(result)
       IN /\ zone' = [zone EXCEPT ![site] = settled]
          /\ failures' = IF result.found THEN failures ELSE Append(failures, result.error)
          /\ runError' = IF settled.state = "rejected" THEN FirstError(settled.error)
                         ELSE runError
    /\ UNCHANGED <<pc, inputs, self, outputs, decl, lookups, op, live, mutations,
                   baseline, torn, zoneRegistry, splitVars, routeVars>>

Ready(k) ==
    /\ pc = "running"
    /\ decl[k] # NotDeclared
    /\ op[k] = "none"
    /\ \A d \in Deps(decl[k]) : op[d] \in DoneOps
    /\ \A z \in ZoneDeps(decl[k]) : zone[z].state = "resolved"

\* a registered resource whose inputs are all known is created, updated or found unchanged
Provision(k) ==
    /\ Ready(k)
    /\ LET want == Desired(decl[k])
       IN IF live[k] = want
          THEN /\ op' = [op EXCEPT ![k] = "same"]
               /\ UNCHANGED <<live, mutations>>
          ELSE /\ op' = [op EXCEPT ![k] = IF live[k] = NoRes THEN "create" ELSE "update"]
               /\ live' = [live EXCEPT ![k] = want]
               /\ mutations' = mutations + 1
    /\ UNCHANGED <<pc, inputs, self, outputs, decl, zone, lookups, runError, failures,
                   baseline, torn, zoneRegistry, splitVars, routeVars>>

\* the provider rejects the creation or update (or validation never confirms)
ProvisionFails(k) ==
    /\ Ready(k)
    /\ live[k] # Desired(decl[k])
    /\ op' = [op EXCEPT ![k] = "failed"]
    /\ failures' = Append(failures, ProviderError(k))
    /\ runError' = FirstError(ProviderError(k))
    /\ UNCHANGED <<pc, inputs, self, outputs, decl, zone, lookups, live, mutations,
                   baseline, torn, zoneRegistry, splitVars, routeVars>>

HasLiveDependent(k) == \E j \in Kinds : live[j] # NoRes /\ k \in live[j].deps

AllRegisteredDone == \A k \in Kinds : decl[k] # NotDeclared => op[k] \in DoneOps

\* after a clean run, a resource the program no longer registers is deleted
DeleteStale(k) ==
    /\ pc = "running"
    /\ runError = NoError
    /\ AllRegisteredDone
    /\ decl[k] = NotDeclared
    /\ live[k] # NoRes
    /\ ~HasLiveDependent(k)
    /\ live' = [live EXCEPT ![k] = NoRes]
    /\ mutations' = mutations + 1
    /\ UNCHANGED <<pc, inputs, self, outputs, decl, zone, lookups, op, runError, failures,
                   baseline, torn, zoneRegistry, splitVars, routeVars>>

\* the run ends: with its error, or successfully once everything registered is in place
Finish ==
    /\ pc = "running"
    /\ \/ /\ runError # NoError
          /\ pc' = "failed"
       \/ /\ runError = NoError
          /\ AllRegisteredDone
          /\ \A k \in Kinds : decl[k] = NotDeclared => live[k] = NoRes
          /\ pc' = "succeeded"
    /\ UNCHANGED <<inputs, self, outputs, decl, zone, lookups, op, live, mutations,
                   runError, failures, baseline, torn, zoneRegistry, splitVars, routeVars>>

\* tear-down of the logical unit, also of a run that is cancelled
StartDestroy ==
    /\ pc \in {"running", "succeeded", "failed"}
    /\ pc' = "destroying"
    /\ inputs' = NotCalled
    /\ self' = NewComponent
    /\ outputs' = NotCalled
    /\ decl' = [k \in Kinds |-> NotDeclared]
    /\ zone' = [s \in Sites |-> [state |-> "none"]]
    /\ lookups' = 0
    /\ op' = [k \in Kinds |-> "none"]
    /\ mutations' = 0
    /\ runError' = NoError
    /\ failures' = <<>>
    /\ baseline' = NotCalled
    /\ torn' = <<>>
    /\ UNCHANGED <<live, zoneRegistry, splitVars, routeVars>>

DestroyStep(k) ==
    /\ pc = "destroying"
    /\ live[k] # NoRes
    /\ ~HasLiveDependent(k)
    /\ live' = [live EXCEPT ![k] = NoRes]
    /\ torn' = Append(torn, k)
    /\ UNCHANGED <<pc, inputs, self, outputs, decl, zone, lookups, op, mutations,
                   runError, failures, baseline, zoneRegistry, splitVars, routeVars>>

FinishDestroy ==
    /\ pc = "destroying"
    /\ \A k \in Kinds : live[k] = NoRes
    /\ pc' = "destroyed"
    /\ UNCHANGED <<inputs, self, outputs, decl, zone, lookups, op, live, mutations,
                   runError, failures, baseline, torn, zoneRegistry, splitVars, routeVars>>

Next ==
    \/ \E name \in Names, targetDomain \in TargetDomains, contentBucket \in RunContentBuckets,
          apiGateway \in ApiGateways, logsBucket \in LogsBuckets :
          Up(name, targetDomain, contentBucket, apiGateway, logsBucket)
    \/ \E site \in Sites : ResolveZone(site)
    \/ \E k \in Kinds : Provision(k)
    \/ \E k \in Kinds : ProvisionFails(k)
    \/ \E k \in Kinds : DeleteStale(k)
    \/ Finish
    \/ StartDestroy
    \/ \E k \in Kinds : DestroyStep(k)
    \/ FinishDestroy

Spec == Init /\ [][Next]_vars

TypeOK ==
    /\ pc \in {"idle", "running", "succeeded", "failed", "destroying", "destroyed"}
    /\ mutations \in 0..(Cardinality(Kinds) + 1)
    /\ lookups \in 0..2

InRun == pc \in {"running", "succeeded", "failed"}

Done(k) == op[k] \in DoneOps

Exists(k) == live[k] # NoRes

\* C1: the ValidationRecord is created, then the Certificate is validated
\* (its ARN becomes available), then the Distribution is created with that
\* ARN as viewer certificate, then the AliasRecord; no state has a later
\* event of the chain without the earlier ones.
C1_CreationOrder ==
    /\ InRun =>
          /\ Done("alias") => Done("dist")
          /\ Done("dist") =>
                /\ Done("certval")
                /\ live["dist"].args.acmCertificateArn = live["certval"].outs.certificateArn
                /\ live["dist"].args.acmCertificateArn = live["cert"].outs.arn
          /\ Done("certval") => Done("valrec")
    /\ Exists("alias") => Exists("dist")
    /\ Exists("dist") => Exists("certval")
    /\ Exists("certval") => Exists("valrec")

C1_Witness ==
    /\ pc = "succeeded"
    /\ \A k \in {"valrec", "certval", "dist", "alias"} : op[k] = "create"

Settled(site) == zone[site].state \in {"resolved", "rejected"}

Position(k) == CHOOSE i \in 1..Len(torn) : torn[i] = k

\* C3: tear-down destroys the AliasRecord and the Distribution before the
\* Certificate and the ValidationRecord, from any set of existing
\* resources, and no step changes the zone registry.
C3_TearDownOrder ==
    /\ [](\A k \in {"cert", "valrec"} :
             (\E i \in 1..Len(torn) : torn[i] = k) =>
                 /\ ~Exists("alias") /\ ~Exists("dist")
                 /\ \A j \in 1..Len(torn) :
                        torn[j] \in {"alias", "dist"} => j < Position(k))
    /\ [][zoneRegistry' = zoneRegistry]_vars

C3_Witness ==
    /\ pc = "destroyed"
    /\ \A k \in {"alias", "dist", "cert", "valrec"} : \E i \in 1..Len(torn) : torn[i] = k

\* C4: a second run with identical inputs on the infrastructure of a first
\* successful run creates, updates and deletes nothing; every resource,
\* the Certificate included, is found unchanged.
C4_Idempotent ==
    (InRun /\ baseline # NotCalled /\ baseline.ok /\ baseline.inputs = inputs) =>
        /\ mutations = 0
        /\ \A k \in Kinds : op[k] \in {"none", "same"}
        /\ runError = NoError

C4_Witness ==
    /\ pc = "succeeded"
    /\ baseline # NotCalled
    /\ baseline.ok
    /\ baseline.inputs = inputs
    /\ inputs.logsBucket = Undefined
    /\ \A k \in Kinds : op[k] = "same"

\* C7: after a successful run each of the three registered outputs is the
\* value that was produced; none is missing or undefined.
C7_OutputsDefined ==
    pc = "succeeded" =>
        /\ outputs # NotCalled
        /\ outputs.certificateArn = Prop(ResourceObject("certval"), "certificateArn")
        /\ outputs.cloudFrontDistribution = ResourceObject("dist")
        /\ outputs.aliasRecord = ResourceObject("alias")

\* position of a component in the chain splitter, zone resolver, certificate
\* provisioner, distribution composer, alias publisher
KindRank(k) ==
    CASE k \in {"east", "cert", "valrec", "certval", "logs"} -> 3
      [] k = "dist" -> 4
      [] k = "alias" -> 5

ErrorRank(e) ==
    CASE e.message[1] = "No TLD found on " -> 1
      [] e.message[1] = "no matching Route53Zone found" -> 2
      [] OTHER -> KindRank(e.message[2])

\* C8 as stated: on a failure the run ends with that first error, is not
\* reported successful, and the components after the failed one in the
\* chain create no resource.
C8_NoLaterComponentCreates ==
    (InRun /\ failures # <<>>) =>
        /\ pc # "succeeded"
        /\ runError = failures[1]
        /\ \A k \in {"cert", "valrec", "certval", "dist", "alias"} :
              KindRank(k) > ErrorRank(failures[1]) => op[k] \notin {"create", "update"}

RECURSIVE TransDeps(_)
TransDeps(j) ==
    IF decl[j] = NotDeclared THEN {}
    ELSE Deps(decl[j]) \cup UNION {TransDeps(d) : d \in Deps(decl[j])}

ZoneTransDeps(j) ==
    IF decl[j] = NotDeclared THEN {}
    ELSE ZoneDeps(decl[j]) \cup UNION {ZoneDeps(decl[d]) : d \in TransDeps(j)}

\* C8 amended: on a failure the run ends with that first error unchanged
\* and is not reported successful, and no resource whose inputs derive,
\* directly or through other resources, from the failed step is created or
\* updated; after a constructor exception nothing past the Certificate
\* request is registered.  Resources taking no input from the failed step
\* (logs bucket, region provider, Certificate request) may still be created.
C8_FailFast ==
    InRun =>
        /\ failures # <<>> => (pc # "succeeded" /\ runError = failures[1])
        /\ failures = <<>> => runError = NoError
        /\ \A j \in Kinds :
              (\E k \in TransDeps(j) : op[k] = "failed") => op[j] = "none"
        /\ \A j \in Kinds :
              (\E z \in ZoneTransDeps(j) : zone[z].state = "rejected") => op[j] = "none"
        /\ outputs = NotCalled =>
              \A j \in {"valrec", "certval", "dist", "alias"} :
                  decl[j] = NotDeclared /\ op[j] = "none"

C8_Witness ==
    /\ pc = "failed"
    /\ zone["provisionCertificate"].state = "rejected"
    /\ runError = zone["provisionCertificate"].error
    /\ op["cert"] = "create"
    /\ op["valrec"] = "none"

\* C9: a logs bucket is registered if and only if the caller supplies none;
\* it is private, owned by the component and named from the target domain,
\* and the Distribution logs to it; a supplied target is logged to instead
\* and no bucket is created.
C9_LogsBucket ==
    InRun =>
        /\ decl["logs"] # NotDeclared <=> inputs.logsBucket = Undefined
        /\ decl["logs"] # NotDeclared =>
              /\ decl["logs"].props.bucket = inputs.targetDomain \o <<"-logs">>
              /\ decl["logs"].props.acl = "private"
              /\ decl["logs"].parent = "this"
        /\ inputs.logsBucket # Undefined => op["logs"] = "none"
        /\ Done("dist") =>
              live["dist"].args.loggingBucket =
                  IF inputs.logsBucket = Undefined
                  THEN inputs.targetDomain \o <<"-logs", ".s3.amazonaws.com">>
                  ELSE inputs.logsBucket.bucketDomainName

C9_Witness ==
    /\ pc = "succeeded"
    /\ inputs.logsBucket = Undefined
    /\ op["logs"] = "create"
    /\ op["dist"] = "create"
    /\ live["dist"].args.loggingBucket = live["logs"].outs.bucketDomainName

====
